---------------------------- MODULE Spec2Model ----------------------------
(***************************************************************************)
(* Model of better_memoize: memoize (a wrapper synthesised from the        *)
(* argspec of the original function, with a dict cache keyed by the bound  *)
(* argument values) and private_cache (a property backed by a dict that    *)
(* is keyed by the instance).                                              *)
(***************************************************************************)
EXTENDS Integers, Sequences, FiniteSets, TLC

VARIABLES
    func_spec,     \* inspect.getargspec(func) of the original function
    phase,         \* "defined" | "memoized" | "decoration_error"
    fmt,           \* what arg_formatter(func) returned (token texts)
    wrapper_spec,  \* the argspec of the synthesised _memoize
    code,          \* the compiled body of _memoize: its key and call expressions
    cache,         \* the wrapper's dict: a set of [key, val] entries
    invoked,       \* invocations of the original: [key, val, pos, kw, n]
    ncalls,        \* number of calls made to the wrapper
    last,          \* the most recent call of the wrapper and its outcome
    persons,       \* the Person instances created so far (index = identity)
    pcache,        \* per accessor, the Cache dict of private_cache
    evals,         \* per accessor and instance, evaluations of the accessor
    plast,         \* the most recent attribute access and its outcome
    trace,         \* the calls made to the wrapper so far, in order
    threads,       \* per thread, its call of the wrapper: position and locals
    computed,      \* the [key, val] pairs the original computed, per execution
    fwd,           \* the latest call's func(<bottom_args>): what func received
    heap,          \* the dict objects created by `cache = {}`, by reference
    wrappers,      \* the wrappers memoize returned: closure of each
    rec            \* a recursive computation: call stack, executions, result

vars == <<func_spec, phase, fmt, wrapper_spec, code, cache, invoked, ncalls, last,
          persons, pcache, evals, plast, trace, threads, computed,
          fwd, heap, wrappers, rec>>

memo_vars == <<func_spec, phase, fmt, wrapper_spec, code, cache, invoked, ncalls, last>>
prop_vars == <<persons, pcache, evals, plast>>
ext_vars == <<trace, threads, computed, fwd, heap, wrappers, rec>>

----------------------------------------------------------------------------
(* Bounds of the model.                                                    *)

MaxArgs == 2        \* named parameters of the original function
MaxSupplied == 2    \* arguments (positional and keyword) supplied by one call
MaxCalls == 2       \* calls made to one wrapper
MaxInstances == 3   \* Person instances created
MaxScenarioCalls == 3   \* calls made in the scenario of the docstring's function
MaxThreads == 2     \* threads that call one wrapper concurrently
MaxWrappers == 2    \* wrappers made by separate calls of memoize
MaxRaiseCalls == 4  \* calls and accesses made while the original may raise
MaxFib == 4         \* largest argument of a top-level call of fib

----------------------------------------------------------------------------
(* Python values.  t is the type, n the payload.                           *)

PyInt(n) == [t |-> "int", n |-> n]
PyFloat(n) == [t |-> "float", n |-> n]
PyList(n) == [t |-> "list", n |-> n]          \* the list [n]
PyNone == [t |-> "NoneType", n |-> 0]
\* an instance of a class whose __repr__ returns 'None' (a sentinel)
Unset == [t |-> "Unset", n |-> 0]
\* an instance with the default object.__repr__, '<object object at 0x..>'
Opaque == [t |-> "object", n |-> 0]

\* a == b in Python: numbers compare by value across int and float, lists
\* by content, None and plain objects by identity.
PyEq(a, b) ==
    IF a.t \in {"int", "float"} /\ b.t \in {"int", "float"}
    THEN a.n = b.n
    ELSE a = b

\* hash(v) succeeds
Hashable(v) == v.t # "list"

\* repr(v), the text that '%r' produces
Repr(v) ==
    CASE v.t = "int" -> (CASE v.n = -1 -> "-1" [] v.n = 0 -> "0" [] v.n = 1 -> "1"
                           [] v.n = 2 -> "2" [] OTHER -> "3")
      [] v.t = "float" -> IF v.n = 1 THEN "1.0" ELSE "2.0"
      [] v.t = "list" -> IF v.n = 1 THEN "[1]" ELSE "[2]"
      [] v.t = "NoneType" -> "None"
      [] v.t = "Unset" -> "None"
      [] OTHER -> "<object object at 0x7f>"

\* evaluating an expression text in the namespace of exec ({'wraps': wraps}
\* and the builtins): the value, or the error raised
Eval(text) ==
    CASE text = "1" -> [ok |-> TRUE, val |-> PyInt(1)]
      [] text = "2" -> [ok |-> TRUE, val |-> PyInt(2)]
      [] text = "3" -> [ok |-> TRUE, val |-> PyInt(3)]
      [] text = "0" -> [ok |-> TRUE, val |-> PyInt(0)]
      [] text = "-1" -> [ok |-> TRUE, val |-> PyInt(-1)]
      [] text = "1.0" -> [ok |-> TRUE, val |-> PyFloat(1)]
      [] text = "2.0" -> [ok |-> TRUE, val |-> PyFloat(2)]
      [] text = "[1]" -> [ok |-> TRUE, val |-> PyList(1)]
      [] text = "[2]" -> [ok |-> TRUE, val |-> PyList(2)]
      [] text = "None" -> [ok |-> TRUE, val |-> PyNone]
      [] OTHER -> [ok |-> FALSE, val |-> PyNone]      \* SyntaxError

\* values a caller passes as arguments
ArgVals == {PyInt(1), PyFloat(1), PyList(1), Unset}
\* values a function declares as defaults
DefaultVals == {PyInt(1), Unset, Opaque}

----------------------------------------------------------------------------
(* Argspecs.                                                               *)

NoName == "None"                       \* spec.varargs / spec.keywords is None
SourceNames == <<"x", "y", "z", "a">>  \* parameter names the tests use
ExtraNames == {"n", "o"}               \* keyword names that are no parameter

SeqsUpTo(S, n) == UNION {[1..k -> S] : k \in 0..n}

Take(s, k) == SubSeq(s, 1, k)
Drop(s, k) == SubSeq(s, k + 1, Len(s))

\* every argspec getargspec can return for a function with at most MaxArgs
\* named parameters taken from SourceNames
ArgSpecs ==
    {[args |-> Take(SourceNames, na), defaults |-> ds, varargs |-> va, keywords |-> kw] :
        na \in 0..(IF MaxArgs < Len(SourceNames) THEN MaxArgs ELSE Len(SourceNames)),
        ds \in SeqsUpTo(DefaultVals, MaxArgs),
        va \in {NoName, "varargs"},
        kw \in {NoName, "keywords"}}

WellFormedSpec(spec) == Len(spec.defaults) <= Len(spec.args)

NoSpec == [args |-> <<>>, defaults |-> <<>>, varargs |-> NoName, keywords |-> NoName]

----------------------------------------------------------------------------
(* arg_formatter: texts are sequences of tokens.                           *)

RECURSIVE Join(_, _)
\* sep.join(pieces), each piece a token sequence
Join(pieces, sep) ==
    IF Len(pieces) = 0 THEN <<>>
    ELSE IF Len(pieces) = 1 THEN pieces[1]
    ELSE pieces[1] \o sep \o Join(Tail(pieces), sep)

Comma == <<",">>

Names(args) == [i \in 1..Len(args) |-> <<args[i]>>]

\* '%s=%r' % (name, default)
FormatDefault(name, default) == <<name, "=", Repr(default)>>

top_required(spec) ==
    LET c == Len(spec.args) - Len(spec.defaults)
    IN  IF c # 0 THEN <<Join(Names(Take(spec.args, c)), Comma)>> ELSE <<>>

top_defaults(spec) ==
    LET c == Len(spec.args) - Len(spec.defaults)
        named == Drop(spec.args, c)
    IN  IF Len(spec.defaults) # 0
        THEN <<Join([i \in 1..Len(spec.defaults) |->
                        FormatDefault(named[i], spec.defaults[i])], Comma)>>
        ELSE <<>>

top_varargs(spec) == IF spec.varargs # NoName THEN <<<<"*", spec.varargs>>>> ELSE <<>>
middle_varargs(spec) == IF spec.varargs # NoName THEN <<<<spec.varargs>>>> ELSE <<>>
top_keywords(spec) == IF spec.keywords # NoName THEN <<<<"**", spec.keywords>>>> ELSE <<>>
middle_keywords(spec) ==
    IF spec.keywords # NoName
    THEN <<<<"frozenset", "(", spec.keywords, ".items()", ")">>>>
    ELSE <<>>

\* Variant: the key is built from the required parameters only.
arg_formatter_required_key(spec) ==
    [top_args |-> Join(top_required(spec) \o top_defaults(spec)
                       \o top_varargs(spec) \o top_keywords(spec), Comma),
     middle_args |-> Join(Names(Take(spec.args, Len(spec.args) - Len(spec.defaults)))
                          \o middle_varargs(spec) \o middle_keywords(spec), Comma),
     bottom_args |-> Join(Names(spec.args) \o top_varargs(spec)
                          \o top_keywords(spec), Comma)]

arg_formatter(spec) ==
    [top_args |-> Join(top_required(spec) \o top_defaults(spec)
                       \o top_varargs(spec) \o top_keywords(spec), Comma),
     middle_args |-> Join(Names(spec.args) \o middle_varargs(spec)
                          \o middle_keywords(spec), Comma),
     bottom_args |-> Join(Names(spec.args) \o top_varargs(spec)
                          \o top_keywords(spec), Comma)]

NoFmt == [top_args |-> <<>>, middle_args |-> <<>>, bottom_args |-> <<>>]

----------------------------------------------------------------------------
(* exec(template): Python compiles `def _memoize(<top_args>)` and evaluates *)
(* the default expressions when the def statement runs, inside memoize.     *)

RECURSIVE Split(_)
\* the comma-separated pieces of a token text
Split(s) ==
    IF Len(s) = 0 THEN <<>>
    ELSE IF \E i \in 1..Len(s) : s[i] = ","
         THEN LET i == CHOOSE j \in 1..Len(s) :
                          s[j] = "," /\ \A k \in 1..(j - 1) : s[k] # ","
              IN  <<Take(s, i - 1)>> \o Split(Drop(s, i))
         ELSE <<s>>

ParamKind(p) ==
    IF Len(p) = 1 THEN "required"
    ELSE IF Len(p) = 3 /\ p[2] = "=" THEN "default"
    ELSE IF Len(p) = 2 /\ p[1] = "*" THEN "varargs"
    ELSE IF Len(p) = 2 /\ p[1] = "**" THEN "keywords"
    ELSE "invalid"

KindRank(k) ==
    CASE k = "required" -> 1 [] k = "default" -> 2
      [] k = "varargs" -> 3 [] k = "keywords" -> 4 [] OTHER -> 0

RECURSIVE Pick(_, _)
\* the pieces of the given kinds, in order
Pick(ps, kinds) ==
    IF Len(ps) = 0 THEN <<>>
    ELSE (IF ParamKind(ps[1]) \in kinds THEN <<ps[1]>> ELSE <<>>)
         \o Pick(Tail(ps), kinds)

\* the argspec of the function that `def _memoize(<top>)` defines, or the
\* error the def statement raises
CompileDef(top) ==
    LET ps == Split(top)
        named == Pick(ps, {"required", "default"})
        dflt == Pick(ps, {"default"})
        va == Pick(ps, {"varargs"})
        kw == Pick(ps, {"keywords"})
        syntax_ok ==
            /\ \A i \in 1..Len(ps) : ParamKind(ps[i]) # "invalid"
            /\ \A i, j \in 1..Len(ps) :
                   i < j => KindRank(ParamKind(ps[i])) <= KindRank(ParamKind(ps[j]))
            /\ Len(va) <= 1 /\ Len(kw) <= 1
            /\ \A i \in 1..Len(dflt) : Eval(dflt[i][3]).ok
    IN  IF syntax_ok
        THEN [ok |-> TRUE,
              spec |-> [args |-> [i \in 1..Len(named) |-> named[i][1]],
                        defaults |-> [i \in 1..Len(dflt) |-> Eval(dflt[i][3]).val],
                        varargs |-> IF Len(va) = 1 THEN va[1][2] ELSE NoName,
                        keywords |-> IF Len(kw) = 1 THEN kw[1][2] ELSE NoName]]
        ELSE [ok |-> FALSE, spec |-> NoSpec]

----------------------------------------------------------------------------
(* Calling a function: how Python binds the arguments of a call.           *)

\* the keyword names a caller of a function with these parameters uses
KwNames(spec) == {spec.args[i] : i \in 1..Len(spec.args)} \cup ExtraNames

IndexOf(s, e) == CHOOSE i \in 1..Len(s) : s[i] = e
InSeq(s, e) == \E i \in 1..Len(s) : s[i] = e

\* keyword arguments of one call: (name, value) pairs with distinct names
KwSeqs(spec, n) ==
    {kw \in [1..n -> KwNames(spec) \X ArgVals] :
        \A i, j \in 1..n : i # j => kw[i][1] # kw[j][1]}

\* the calls f(*pos, **kw) that supply at most MaxSupplied arguments
CallForms(spec) ==
    UNION {UNION {[1..np -> ArgVals] \X KwSeqs(spec, nk) :
                     nk \in 0..(MaxSupplied - np)} :
              np \in 0..MaxSupplied}

NoBinding == [ok |-> FALSE, named |-> <<>>, varargs |-> <<>>, keywords |-> <<>>]

\* the values a call f(*pos, **kw) binds to the parameters of spec, or the
\* TypeError of a call that does not fit the parameter list
Bind(spec, pos, kw) ==
    LET na == Len(spec.args)
        c == na - Len(spec.defaults)
        given(j) == j <= Len(pos) \/ \E i \in 1..Len(kw) : kw[i][1] = spec.args[j]
        fits ==
            /\ Len(pos) > na => spec.varargs # NoName
            /\ \A i \in 1..Len(kw) :
                   IF InSeq(spec.args, kw[i][1])
                   THEN IndexOf(spec.args, kw[i][1]) > Len(pos)
                   ELSE spec.keywords # NoName
            /\ \A j \in 1..na : given(j) \/ j > c
        value(j) ==
            IF j <= Len(pos) THEN pos[j]
            ELSE IF \E i \in 1..Len(kw) : kw[i][1] = spec.args[j]
                 THEN kw[CHOOSE i \in 1..Len(kw) : kw[i][1] = spec.args[j]][2]
                 ELSE spec.defaults[j - c]
        extra(p) == ~InSeq(spec.args, p[1])
    IN  IF fits
        THEN [ok |-> TRUE,
              named |-> [j \in 1..na |-> value(j)],
              varargs |-> IF Len(pos) > na THEN Drop(pos, na) ELSE <<>>,
              keywords |-> SelectSeq(kw, extra)]
        ELSE NoBinding

\* the original function: deterministic, and its result tells its bound
\* arguments apart exactly (keyword order aside), as `return repr(locals())`
OrigFunc(b) ==
    [named |-> b.named, varargs |-> b.varargs,
     keywords |-> {b.keywords[i] : i \in 1..Len(b.keywords)}]

NoResult == [named |-> <<>>, varargs |-> <<>>, keywords |-> {}]

\* func(*pos, **kw) on the original
CallFunc(spec, pos, kw) ==
    LET b == Bind(spec, pos, kw)
    IN  IF b.ok THEN [ok |-> TRUE, val |-> OrigFunc(b)]
        ELSE [ok |-> FALSE, val |-> NoResult]

----------------------------------------------------------------------------
(* The body of _memoize: key = (<middle_args>), cache[key], func(<bottom>). *)

ValComp(v) == [kind |-> "val", val |-> v, items |-> <<>>, pairs |-> {}]
TupleComp(vs) == [kind |-> "tuple", val |-> PyNone, items |-> vs, pairs |-> {}]

\* Variant: tuple(keywords.items()), which keeps the order of the items.
TupleOfItems(kw) ==
    [ok |-> \A i \in 1..Len(kw) : Hashable(kw[i][2]),
     comp |-> [kind |-> "frozenset", val |-> PyNone, items |-> <<>>,
               pairs |-> {<<<<i, kw[i][1]>>, kw[i][2]>> : i \in 1..Len(kw)}]]

\* frozenset(keywords.items()): hashes every (name, value) item
FrozenSetOfItems(kw) ==
    [ok |-> \A i \in 1..Len(kw) : Hashable(kw[i][2]),
     comp |-> [kind |-> "frozenset", val |-> PyNone, items |-> <<>>,
               pairs |-> {kw[i] : i \in 1..Len(kw)}]]

\* one expression of middle_args evaluated in the wrapper's local scope
KeyPiece(p, spec, b) ==
    IF Len(p) = 1
    THEN IF InSeq(spec.args, p[1])
         THEN [ok |-> TRUE, comp |-> ValComp(b.named[IndexOf(spec.args, p[1])])]
         ELSE [ok |-> TRUE, comp |-> TupleComp(b.varargs)]
    ELSE FrozenSetOfItems(b.keywords)

\* key = (<middle_args>): a tuple, except that one expression in
\* parentheses is that expression's value itself; ps are the expressions
KeyExpr(ps, spec, b) ==
    LET vs == [i \in 1..Len(ps) |-> KeyPiece(ps[i], spec, b)]
    IN  [ok |-> \A i \in 1..Len(ps) : vs[i].ok,
         key |-> [tuple |-> Len(ps) # 1,
                  comps |-> [i \in 1..Len(ps) |-> vs[i].comp]]]

NoKey == [tuple |-> TRUE, comps |-> <<>>]

CompEq(a, b) ==
    /\ a.kind = b.kind
    /\ PyEq(a.val, b.val)
    /\ Len(a.items) = Len(b.items)
    /\ \A i \in 1..Len(a.items) : PyEq(a.items[i], b.items[i])
    /\ \A p \in a.pairs : \E q \in b.pairs : p[1] = q[1] /\ PyEq(p[2], q[2])
    /\ \A q \in b.pairs : \E p \in a.pairs : p[1] = q[1] /\ PyEq(p[2], q[2])

\* k1 == k2 for two keys
KeyEq(k1, k2) ==
    /\ k1.tuple = k2.tuple
    /\ Len(k1.comps) = Len(k2.comps)
    /\ \A i \in 1..Len(k1.comps) : CompEq(k1.comps[i], k2.comps[i])

\* hash(key) succeeds
HashableKey(k) ==
    \A i \in 1..Len(k.comps) :
        /\ Hashable(k.comps[i].val)
        /\ \A j \in 1..Len(k.comps[i].items) : Hashable(k.comps[i].items[j])

\* the entries of dict c under a key equal to key (none or one)
Lookup(c, key) == {e \in c : KeyEq(e.key, key)}

\* Variant: the store adds an entry and leaves an entry of an equal key.
SetItemAppended(c, key, val) == c \cup {[key |-> key, val |-> val]}

\* Variant: the store does not tell keys apart and overwrites what is there.
SetItemOverwriting(c, key, val) ==
    IF c = {} THEN {[key |-> key, val |-> val]}
    ELSE {[key |-> e.key, val |-> val] : e \in c}

\* Variant: the store is left out.
SetItemSkipped(c, key, val) == c

\* Variant: the store rebinds the cache to a new dict holding this entry.
SetItemFresh(c, key, val) == {[key |-> key, val |-> val]}

\* c[key] = val: an equal key keeps its key object and takes the new value
SetItem(c, key, val) ==
    IF Lookup(c, key) # {}
    THEN {IF KeyEq(e.key, key) THEN [key |-> e.key, val |-> val] ELSE e : e \in c}
    ELSE c \cup {[key |-> key, val |-> val]}

RECURSIVE Splat(_, _, _)
\* the positional arguments of func(<bottom_args>)
Splat(ps, spec, b) ==
    IF Len(ps) = 0 THEN <<>>
    ELSE (IF Len(ps[1]) = 1 THEN <<b.named[IndexOf(spec.args, ps[1][1])]>>
          ELSE IF ps[1][1] = "*" THEN b.varargs
          ELSE <<>>)
         \o Splat(Tail(ps), spec, b)

\* the arguments of func(<bottom_args>); ps are the argument expressions
CallExpr(ps, spec, b) ==
    [pos |-> Splat(ps, spec, b),
     kw |-> IF \E i \in 1..Len(ps) : ps[i][1] = "**" THEN b.keywords ELSE <<>>]

\* the body of _memoize as compiled by exec(template)
Compile(f) == [middle |-> Split(f.middle_args), bottom |-> Split(f.bottom_args)]

NoCode == [middle |-> <<>>, bottom |-> <<>>]

Raise(c, err) ==
    [outcome |-> err, cache |-> c, key |-> NoKey, result |-> NoResult,
     hit |-> FALSE, called |-> FALSE]

\* Variant: val = func(...) runs before the lookup instead of after it.
MemoizeBodyCallFirst(f, wspec, ospec, c, b) ==
    LET k == KeyExpr(f.middle, wspec, b)
        a == CallExpr(f.bottom, wspec, b)
        r == CallFunc(ospec, a.pos, a.kw)
    IN  IF ~r.ok THEN Raise(c, "TypeError")
        ELSE IF ~k.ok \/ ~HashableKey(k.key)
        THEN [Raise(c, "TypeError") EXCEPT !.called = TRUE, !.result = r.val]
        ELSE IF Lookup(c, k.key) # {}
        THEN [outcome |-> "return", cache |-> c, key |-> k.key,
              result |-> (CHOOSE e \in Lookup(c, k.key) : TRUE).val,
              hit |-> TRUE, called |-> TRUE]
        ELSE [outcome |-> "return", cache |-> SetItem(c, k.key, r.val),
              key |-> k.key, result |-> r.val, hit |-> FALSE, called |-> TRUE]

\* _memoize(...) once the arguments are bound: f is the compiled body,
\* wspec the wrapper's parameters, ospec the original's, c the cache
MemoizeBody(f, wspec, ospec, c, b) ==
    LET k == KeyExpr(f.middle, wspec, b)
        a == CallExpr(f.bottom, wspec, b)
        r == CallFunc(ospec, a.pos, a.kw)
    IN  IF ~k.ok \/ ~HashableKey(k.key) THEN Raise(c, "TypeError")
        ELSE IF Lookup(c, k.key) # {}
        THEN [outcome |-> "return", cache |-> c, key |-> k.key,
              result |-> (CHOOSE e \in Lookup(c, k.key) : TRUE).val,
              hit |-> TRUE, called |-> FALSE]
        ELSE IF ~r.ok THEN Raise(c, "TypeError")
        ELSE [outcome |-> "return", cache |-> SetItem(c, k.key, r.val),
              key |-> k.key, result |-> r.val, hit |-> FALSE, called |-> TRUE]

\* the record of invocations of the original: one more under key, made
\* with result val by the call wrapper(*pos, **kw)
Count(inv, key, val, pos, kw) ==
    LET same(e) == e.key = key /\ e.val = val /\ e.pos = pos /\ e.kw = kw
    IN  IF \E e \in inv : same(e)
        THEN {IF same(e) THEN [e EXCEPT !.n = @ + 1] ELSE e : e \in inv}
        ELSE inv \cup {[key |-> key, val |-> val, pos |-> pos, kw |-> kw, n |-> 1]}

NoCall ==
    [pos |-> <<>>, kw |-> <<>>, bound |-> FALSE, outcome |-> "none", key |-> NoKey,
     result |-> NoResult, hit |-> FALSE, called |-> FALSE,
     direct |-> [ok |-> FALSE, val |-> NoResult]]

----------------------------------------------------------------------------
(* private_cache: persons[i] is the value (the names) of instance i.       *)

Accessors == {"x", "y"}
PersonValues == {"Steve_Zelaznik", "Barack_Obama"}

NoAccess == [acc |-> "none", inst |-> 0, result |-> [acc |-> "none", id |-> 0, n |-> 0],
             evaluated |-> FALSE]

\* Person.__eq__ and Person.__hash__: by first_name and last_name
PersonEq(ps, i, j) == ps[i] = ps[j]

\* the entries of Cache dict c under a key equal to instance i
CacheLookup(ps, c, i) == {e \in c : PersonEq(ps, e.key, i)}

\* the accessors of the tests: "XXX_%d_%d" % (id(self), next(self.x_id))
Accessor(acc, i, n) == [acc |-> acc, id |-> i, n |-> n + 1]

\* Cache.__getitem__(instance), with __missing__ on a miss
CacheGetItem(ps, c, acc, i, n) ==
    IF CacheLookup(ps, c, i) # {}
    THEN [cache |-> c, result |-> (CHOOSE e \in CacheLookup(ps, c, i) : TRUE).val,
          evaluated |-> FALSE]
    ELSE [cache |-> c \cup {[key |-> i, val |-> Accessor(acc, i, n)]},
          result |-> Accessor(acc, i, n), evaluated |-> TRUE]

----------------------------------------------------------------------------
(* Operations.                                                             *)

MemoInit ==
    /\ func_spec \in {s \in ArgSpecs : WellFormedSpec(s)}
    /\ phase = "defined"
    /\ fmt = NoFmt
    /\ wrapper_spec = NoSpec
    /\ code = NoCode
    /\ cache = {}
    /\ invoked = {}
    /\ ncalls = 0
    /\ last = NoCall

PropInit ==
    /\ persons = <<>>
    /\ pcache = [a \in Accessors |-> {}]
    /\ evals = [a \in Accessors |-> <<>>]
    /\ plast = NoAccess

\* memoize(func)
Memoize ==
    /\ phase = "defined"
    /\ LET f == arg_formatter(func_spec)
           d == CompileDef(f.top_args)
       IN  /\ fmt' = f
           /\ phase' = IF d.ok THEN "memoized" ELSE "decoration_error"
           /\ wrapper_spec' = d.spec
           /\ code' = IF d.ok THEN Compile(f) ELSE NoCode
    /\ UNCHANGED <<func_spec, cache, invoked, ncalls, last>>
    /\ UNCHANGED <<prop_vars, ext_vars>>

\* one call wrapper(*pos, **kw) of the memoized function, form = <<pos, kw>>
CallStep(form) ==
    /\ \E b \in {Bind(wrapper_spec, form[1], form[2])} :
           \E r \in {IF b.ok
                    THEN MemoizeBody(code, wrapper_spec, func_spec, cache, b)
                    ELSE Raise(cache, "TypeError")} :
           LET pos == form[1]
               kw == form[2]
           IN  /\ cache' = r.cache
               /\ invoked' = IF r.called
                             THEN Count(invoked, r.key, r.result, pos, kw)
                             ELSE invoked
               /\ last' = IF b.ok
                           THEN [pos |-> pos, kw |-> kw, bound |-> TRUE,
                                 outcome |-> r.outcome, key |-> r.key,
                                 result |-> r.result, hit |-> r.hit,
                                 called |-> r.called,
                                 direct |-> CallFunc(func_spec, pos, kw)]
                           ELSE [NoCall EXCEPT !.outcome = r.outcome]
    /\ ncalls' = ncalls + 1
    /\ UNCHANGED <<func_spec, phase, fmt, wrapper_spec, code>>
    /\ UNCHANGED prop_vars

\* a caller calls the wrapper with any arguments
Call ==
    /\ phase = "memoized"
    /\ ncalls < MaxCalls
    /\ \E form \in CallForms(func_spec) : CallStep(form)
    /\ UNCHANGED ext_vars

\* Person(first_name, last_name)
NewPerson ==
    /\ Len(persons) < MaxInstances
    /\ \E v \in PersonValues : persons' = Append(persons, v)
    /\ evals' = [a \in Accessors |-> Append(evals[a], 0)]
    /\ UNCHANGED <<pcache, plast>>
    /\ UNCHANGED <<memo_vars, ext_vars>>

\* Variant: one Cache dict behind all accessors.
AccessShared ==
    /\ \E a \in Accessors, i \in 1..Len(persons) :
           LET r == CacheGetItem(persons, pcache[a], a, i, evals[a][i])
           IN  /\ pcache' = [b \in Accessors |-> r.cache]
               /\ evals' = IF r.evaluated
                           THEN [evals EXCEPT ![a][i] = @ + 1]
                           ELSE evals
               /\ plast' = [acc |-> a, inst |-> i, result |-> r.result,
                            evaluated |-> r.evaluated]
    /\ UNCHANGED persons
    /\ UNCHANGED <<memo_vars, ext_vars>>

\* instance.x or instance.y
Access ==
    /\ \E a \in Accessors, i \in 1..Len(persons) :
           LET r == CacheGetItem(persons, pcache[a], a, i, evals[a][i])
           IN  /\ pcache' = [pcache EXCEPT ![a] = r.cache]
               /\ evals' = IF r.evaluated
                           THEN [evals EXCEPT ![a][i] = @ + 1]
                           ELSE evals
               /\ plast' = [acc |-> a, inst |-> i, result |-> r.result,
                            evaluated |-> r.evaluated]
    /\ UNCHANGED persons
    /\ UNCHANGED <<memo_vars, ext_vars>>

NoVal == [res |-> NoResult, run |-> 0]

\* a thread that has not called the wrapper
NoThread ==
    [pc |-> "idle", b |-> NoBinding, key |-> NoKey, val |-> NoVal, ret |-> NoVal]

NoFwd ==
    [bound |-> NoBinding, outcome |-> "none", hit |-> FALSE, called |-> FALSE,
     pos |-> <<>>, kw |-> {}]

NoRec == [stack |-> <<>>, execs |-> <<>>, ret |-> [n |-> 0, val |-> 0, done |-> FALSE]]

ExtInit ==
    /\ rec = NoRec
    /\ heap = <<>>
    /\ wrappers = <<>>
    /\ fwd = NoFwd
    /\ trace = <<>>
    /\ threads = [t \in 1..MaxThreads |-> NoThread]
    /\ computed = {}

Init == MemoInit /\ PropInit /\ ExtInit

Next == Memoize \/ Call

Spec == Init /\ [][Next]_vars

PropNext == NewPerson \/ Access

PropSpec == Init /\ [][PropNext]_vars

----------------------------------------------------------------------------
(* The function of arg_formatter's docstring,                              *)
(* f(x, y, z=-1, *varargs, **keywords), and calls of its wrapper.          *)

ScenarioFunc ==
    [args |-> <<"x", "y", "z">>, defaults |-> <<PyInt(-1)>>,
     varargs |-> "varargs", keywords |-> "keywords"]

\* f(1, 2), f(1, 2, z=3), and calls that bind the same or other values
ScenarioForms ==
    {<<<<PyInt(1), PyInt(2)>>, <<>>>>,
     <<<<PyInt(1), PyInt(2)>>, <<<<"z", PyInt(3)>>>>>>,
     <<<<PyInt(1), PyInt(2), PyInt(3)>>, <<>>>>,
     <<<<PyInt(1), PyInt(2)>>, <<<<"z", PyInt(-1)>>>>>>,
     <<<<PyInt(2), PyInt(1)>>, <<>>>>,
     <<<<PyInt(1), PyInt(2), PyInt(-1), PyInt(3)>>, <<>>>>}

ScenarioInit ==
    /\ func_spec = ScenarioFunc
    /\ phase = "defined"
    /\ fmt = NoFmt
    /\ wrapper_spec = NoSpec
    /\ code = NoCode
    /\ cache = {}
    /\ invoked = {}
    /\ ncalls = 0
    /\ last = NoCall
    /\ PropInit
    /\ ExtInit

\* one call of the scenario, recorded in order
ScenarioCall ==
    /\ phase = "memoized"
    /\ ncalls < MaxScenarioCalls
    /\ \E form \in ScenarioForms : CallStep(form)
    /\ trace' = Append(trace, last')
    /\ UNCHANGED <<threads, computed, fwd, heap, wrappers, rec>>

ScenarioNext == Memoize \/ ScenarioCall

ScenarioSpec == ScenarioInit /\ [][ScenarioNext]_vars

----------------------------------------------------------------------------
(* Name resolution in _memoize.  The parameters of the original become the *)
(* parameters, so the locals, of _memoize; the body assigns the locals key *)
(* and val and reads the names cache and func, which are closure variables *)
(* of wrapper(func) unless a local of that name hides them.                *)

\* names the template uses, and a name it does not use
ShadowNames == {"x", "func", "cache", "key", "val", "wraps"}

DistinctSeqs(S, n) ==
    {q \in SeqsUpTo(S, n) : \A i, j \in 1..Len(q) : i # j => q[i] # q[j]}

\* argspecs without defaults whose parameter names are taken from ShadowNames
ShadowSpecs ==
    {sp \in {[args |-> a, defaults |-> <<>>, varargs |-> va, keywords |-> kw] :
                a \in DistinctSeqs(ShadowNames, MaxArgs),
                va \in {NoName} \cup ShadowNames,
                kw \in {NoName} \cup ShadowNames} :
        /\ ~InSeq(sp.args, sp.varargs) /\ ~InSeq(sp.args, sp.keywords)
        /\ sp.varargs = NoName \/ sp.varargs # sp.keywords}

\* the names of all parameters
Params(spec) == ({spec.args[i] : i \in 1..Len(spec.args)}
                 \cup {spec.varargs, spec.keywords}) \ {NoName}

\* the calls made: every named parameter positionally, at most one extra
\* positional and one extra keyword argument
ShadowForms(spec) ==
    {<<pos, kw>> :
        pos \in UNION {[1..n -> {PyInt(1), PyInt(2)}] :
                         n \in Len(spec.args)..(Len(spec.args)
                                + (IF spec.varargs # NoName THEN 1 ELSE 0))},
        kw \in {<<>>} \cup (IF spec.keywords # NoName
                            THEN {<<<<"n", PyInt(1)>>>>} ELSE {})}

\* objects that are no argument value: the tuple bound to key, and the dict
\* of the variable-keyword arguments
KeyComp == [kind |-> "key", val |-> PyNone, items |-> <<>>, pairs |-> {}]
DictComp(kw) ==
    [kind |-> "dict", val |-> PyNone, items |-> <<>>,
     pairs |-> {kw[i] : i \in 1..Len(kw)}]

\* the value of the local `name` after key = (<middle_args>) ran; k is
\* the key that line built
LocalOf(name, spec, b, k) ==
    IF name = "key"
    THEN (IF k.tuple THEN KeyComp ELSE k.comps[1])
    ELSE IF InSeq(spec.args, name) THEN ValComp(b.named[IndexOf(spec.args, name)])
    ELSE IF name = spec.varargs THEN TupleComp(b.varargs)
    ELSE DictComp(b.keywords)

RECURSIVE ScopedSplat(_, _, _, _)
\* the positional arguments of func(<bottom_args>), each name read from
\* the locals
ScopedSplat(ps, spec, b, k) ==
    IF Len(ps) = 0 THEN <<>>
    ELSE (IF Len(ps[1]) = 1 THEN <<LocalOf(ps[1][1], spec, b, k)>>
          ELSE IF ps[1][1] = "*"
          THEN (LET o == LocalOf(ps[1][2], spec, b, k)
                IN  IF o.kind = "key" THEN k.comps
                    ELSE [i \in 1..Len(o.items) |-> ValComp(o.items[i])])
          ELSE <<>>)
         \o ScopedSplat(Tail(ps), spec, b, k)

\* the ** argument of func(<bottom_args>): the mapping, or no mapping
ScopedKeywords(ps, spec, b, k) ==
    IF \E i \in 1..Len(ps) : ps[i][1] = "**"
    THEN LET o == LocalOf(ps[CHOOSE i \in 1..Len(ps) : ps[i][1] = "**"][2], spec, b, k)
         IN  [ok |-> o.kind = "dict", pairs |-> o.pairs]
    ELSE [ok |-> TRUE, pairs |-> {}]

ScopedRaise(c, b) ==
    [bound |-> b, outcome |-> "TypeError", hit |-> FALSE, called |-> FALSE,
     pos |-> <<>>, kw |-> {}, cache |-> c]

\* _memoize(...) with every name resolved as Python resolves it
ScopedBody(f, spec, c, b) ==
    LET k == KeyExpr(f.middle, spec, b).key
        own == Params(spec)
        kws == ScopedKeywords(f.bottom, spec, b, k)
        args == ScopedSplat(f.bottom, spec, b, k)
        val == [pos |-> args, kw |-> kws.pairs]
    IN  \* cache[key]: a local int or tuple cannot be indexed by the key
        IF "cache" \in own /\ LocalOf("cache", spec, b, k).kind # "dict"
        THEN ScopedRaise(c, b)
        ELSE IF "cache" \notin own /\ Lookup(c, k) # {}
        THEN [bound |-> b, outcome |-> "return", hit |-> TRUE, called |-> FALSE,
              pos |-> <<>>, kw |-> {}, cache |-> c]
        \* func(...): a local int, tuple or dict is not callable;
        \* **key is no mapping
        ELSE IF "func" \in own \/ ~kws.ok
        THEN ScopedRaise(c, b)
        ELSE [bound |-> b, outcome |-> "return", hit |-> FALSE, called |-> TRUE,
              pos |-> args, kw |-> kws.pairs,
              \* cache[key] = val: into the local dict, if cache is one
              cache |-> IF "cache" \in own THEN c ELSE SetItem(c, k, val)]

ShadowInit ==
    /\ func_spec \in ShadowSpecs
    /\ phase = "defined"
    /\ fmt = NoFmt
    /\ wrapper_spec = NoSpec
    /\ code = NoCode
    /\ cache = {}
    /\ invoked = {}
    /\ ncalls = 0
    /\ last = NoCall
    /\ PropInit
    /\ ExtInit

\* one call of the wrapper of a function with such parameter names
ShadowCall ==
    /\ phase = "memoized"
    /\ ncalls < MaxCalls
    /\ \E form \in ShadowForms(func_spec) :
           \E b \in {Bind(wrapper_spec, form[1], form[2])} :
           \E r \in {ScopedBody(code, wrapper_spec, cache, b)} :
               /\ cache' = r.cache
               /\ fwd' = [bound |-> r.bound, outcome |-> r.outcome, hit |-> r.hit,
                          called |-> r.called, pos |-> r.pos, kw |-> r.kw]
    /\ ncalls' = ncalls + 1
    /\ UNCHANGED <<func_spec, phase, fmt, wrapper_spec, code, invoked, last>>
    /\ UNCHANGED <<prop_vars, trace, threads, computed, heap, wrappers, rec>>

ShadowNext == Memoize \/ ShadowCall

ShadowSpec == ShadowInit /\ [][ShadowNext]_vars

----------------------------------------------------------------------------
(* Threads that call one wrapper without a lock: each line of _memoize is  *)
(* a step, and the steps of the threads interleave.  The original is a     *)
(* function that counts its executions, as the stand-ins of the tests do.  *)

ThreadFunc ==
    [args |-> <<"x">>, defaults |-> <<>>, varargs |-> NoName, keywords |-> NoName]

ThreadArgs == {PyInt(1), PyFloat(1), PyInt(2)}

ThreadInit ==
    /\ func_spec = ThreadFunc
    /\ phase = "defined"
    /\ fmt = NoFmt
    /\ wrapper_spec = NoSpec
    /\ code = NoCode
    /\ cache = {}
    /\ invoked = {}
    /\ ncalls = 0
    /\ last = NoCall
    /\ PropInit
    /\ ExtInit

ThreadFrame == UNCHANGED <<func_spec, phase, fmt, wrapper_spec, code, invoked, ncalls,
                           last, prop_vars, trace, fwd, heap, wrappers, rec>>

\* thread t enters _memoize(x) and evaluates key = (<middle_args>)
ThreadEnter(t) ==
    /\ phase = "memoized"
    /\ threads[t].pc = "idle"
    /\ \E x \in ThreadArgs :
           LET b == Bind(wrapper_spec, <<x>>, <<>>)
               k == KeyExpr(code.middle, wrapper_spec, b)
           IN  threads' = [threads EXCEPT ![t] = [@ EXCEPT !.pc = "lookup", !.b = b,
                                                           !.key = k.key]]
    /\ UNCHANGED <<cache, computed>>
    /\ ThreadFrame

\* try: return cache[key] / except KeyError: pass
ThreadLookup(t) ==
    /\ threads[t].pc = "lookup"
    /\ LET found == Lookup(cache, threads[t].key)
       IN  threads' = [threads EXCEPT ![t] =
                          IF found # {}
                          THEN [@ EXCEPT !.pc = "done",
                                         !.ret = (CHOOSE e \in found : TRUE).val]
                          ELSE [@ EXCEPT !.pc = "call"]]
    /\ UNCHANGED <<cache, computed>>
    /\ ThreadFrame

\* val = func(<bottom_args>)
ThreadInvoke(t) ==
    /\ threads[t].pc = "call"
    /\ LET a == CallExpr(code.bottom, wrapper_spec, threads[t].b)
           v == [res |-> CallFunc(func_spec, a.pos, a.kw).val,
                 run |-> Cardinality(computed) + 1]
       IN  /\ threads' = [threads EXCEPT ![t] = [@ EXCEPT !.pc = "store", !.val = v]]
           /\ computed' = computed \cup {[key |-> threads[t].key, val |-> v]}
    /\ UNCHANGED cache
    /\ ThreadFrame

\* cache[key] = val
ThreadStore(t) ==
    /\ threads[t].pc = "store"
    /\ cache' = SetItem(cache, threads[t].key, threads[t].val)
    /\ threads' = [threads EXCEPT ![t] = [@ EXCEPT !.pc = "return"]]
    /\ UNCHANGED computed
    /\ ThreadFrame

\* return val
ThreadReturn(t) ==
    /\ threads[t].pc = "return"
    /\ threads' = [threads EXCEPT ![t] = [@ EXCEPT !.pc = "done",
                                                   !.ret = threads[t].val]]
    /\ UNCHANGED <<cache, computed>>
    /\ ThreadFrame

ThreadNext ==
    \/ Memoize
    \/ \E t \in 1..MaxThreads : ThreadEnter(t)
    \/ \E t \in 1..MaxThreads : ThreadLookup(t)
    \/ \E t \in 1..MaxThreads : ThreadInvoke(t)
    \/ \E t \in 1..MaxThreads : ThreadStore(t)
    \/ \E t \in 1..MaxThreads : ThreadReturn(t)

ThreadSpec == ThreadInit /\ [][ThreadNext]_vars

----------------------------------------------------------------------------
(* Several wrappers: every call of memoize runs wrapper(func), whose first *)
(* statement creates the dict that the _memoize it returns closes over.    *)

\* the functions that get memoized: f(x) and g(x=1)
TwoFuncs ==
    [f |-> [args |-> <<"x">>, defaults |-> <<>>, varargs |-> NoName, keywords |-> NoName],
     g |-> [args |-> <<"x">>, defaults |-> <<PyInt(1)>>, varargs |-> NoName,
            keywords |-> NoName]]

\* Variant: one dict for all wrappers (a module-level or default-argument dict).
SharedDict(h) ==
    IF Len(h) = 0 THEN [heap |-> <<{}>>, ref |-> 1] ELSE [heap |-> h, ref |-> 1]

\* cache = {}: a new dict object
NewDict(h) == [heap |-> Append(h, {}), ref |-> Len(h) + 1]

TwoInit ==
    /\ func_spec = NoSpec
    /\ phase = "defined"
    /\ fmt = NoFmt
    /\ wrapper_spec = NoSpec
    /\ code = NoCode
    /\ cache = {}
    /\ invoked = {}
    /\ ncalls = 0
    /\ last = NoCall
    /\ PropInit
    /\ ExtInit

\* memoize(f) or memoize(g), once more
MemoizeAgain ==
    /\ Len(wrappers) < MaxWrappers
    /\ \E fn \in DOMAIN TwoFuncs :
           LET f == arg_formatter(TwoFuncs[fn])
               d == CompileDef(f.top_args)
               n == NewDict(heap)
           IN  /\ d.ok
               /\ heap' = n.heap
               /\ wrappers' = Append(wrappers,
                                     [func |-> fn, spec |-> d.spec, code |-> Compile(f),
                                      cache |-> n.ref, stored |-> {}])
    /\ UNCHANGED <<memo_vars, prop_vars, trace, threads, computed, fwd, rec>>

\* one call of one of the wrappers
CallWrapper ==
    /\ ncalls < MaxCalls
    /\ \E w \in 1..Len(wrappers) :
       \E pos \in {<<>>} \cup {<<x>> : x \in ThreadArgs} :
       \E b \in {Bind(wrappers[w].spec, pos, <<>>)} :
           /\ b.ok
           /\ \E r \in {MemoizeBody(wrappers[w].code, wrappers[w].spec,
                                     TwoFuncs[wrappers[w].func],
                                     heap[wrappers[w].cache], b)} :
                  /\ heap' = [heap EXCEPT ![wrappers[w].cache] = r.cache]
                  /\ wrappers' = [wrappers EXCEPT ![w].stored =
                                      IF r.called
                                      THEN @ \cup {[key |-> r.key, val |-> r.result]}
                                      ELSE @]
                  /\ trace' = Append(trace, [w |-> w, key |-> r.key, hit |-> r.hit,
                                             called |-> r.called])
    /\ ncalls' = ncalls + 1
    /\ UNCHANGED <<func_spec, phase, fmt, wrapper_spec, code, cache, invoked, last>>
    /\ UNCHANGED <<prop_vars, threads, computed, fwd, rec>>

TwoNext == MemoizeAgain \/ CallWrapper

TwoSpec == TwoInit /\ [][TwoNext]_vars

----------------------------------------------------------------------------
(* An original that may raise.  Each execution of the original either      *)
(* returns or raises; KeyError is the exception the wrapper itself catches *)
(* around its lookup.                                                      *)

Raises == {"none", "KeyError"}

RaiseArgs == {PyInt(1), PyInt(2)}

\* Variant: the store runs in a finally clause, also when func raised.
MemoizeBodyStoreAlways(f, wspec, ospec, c, b, exc) ==
    LET k == KeyExpr(f.middle, wspec, b)
        a == CallExpr(f.bottom, wspec, b)
        r == CallFunc(ospec, a.pos, a.kw)
    IN  IF ~k.ok \/ ~HashableKey(k.key) THEN Raise(c, "TypeError")
        ELSE IF Lookup(c, k.key) # {}
        THEN [outcome |-> "return", cache |-> c, key |-> k.key,
              result |-> (CHOOSE e \in Lookup(c, k.key) : TRUE).val,
              hit |-> TRUE, called |-> FALSE]
        ELSE IF ~r.ok THEN Raise(c, "TypeError")
        ELSE IF exc # "none"
        THEN [Raise(SetItem(c, k.key, NoResult), exc) EXCEPT !.key = k.key,
                                                              !.called = TRUE]
        ELSE [outcome |-> "return", cache |-> SetItem(c, k.key, r.val),
              key |-> k.key, result |-> r.val, hit |-> FALSE, called |-> TRUE]

\* _memoize(...) where this execution of func, if any, raises exc: the
\* try covers only `return cache[key]`, so what func raises leaves
\* _memoize at line 23
MemoizeBodyRaising(f, wspec, ospec, c, b, exc) ==
    LET k == KeyExpr(f.middle, wspec, b)
        a == CallExpr(f.bottom, wspec, b)
        r == CallFunc(ospec, a.pos, a.kw)
    IN  IF ~k.ok \/ ~HashableKey(k.key) THEN Raise(c, "TypeError")
        ELSE IF Lookup(c, k.key) # {}
        THEN [outcome |-> "return", cache |-> c, key |-> k.key,
              result |-> (CHOOSE e \in Lookup(c, k.key) : TRUE).val,
              hit |-> TRUE, called |-> FALSE]
        ELSE IF ~r.ok THEN Raise(c, "TypeError")
        ELSE IF exc # "none"
        THEN [Raise(c, exc) EXCEPT !.key = k.key, !.called = TRUE]
        ELSE [outcome |-> "return", cache |-> SetItem(c, k.key, r.val),
              key |-> k.key, result |-> r.val, hit |-> FALSE, called |-> TRUE]

\* Cache.__getitem__(instance) where this execution of func, if any,
\* raises exc inside __missing__
CacheGetItemRaising(ps, c, acc, i, n, exc) ==
    IF CacheLookup(ps, c, i) # {}
    THEN [outcome |-> "return", cache |-> c,
          result |-> (CHOOSE e \in CacheLookup(ps, c, i) : TRUE).val,
          evaluated |-> FALSE]
    ELSE IF exc # "none"
    THEN [outcome |-> exc, cache |-> c, result |-> NoAccess.result, evaluated |-> TRUE]
    ELSE [outcome |-> "return", cache |-> c \cup {[key |-> i, val |-> Accessor(acc, i, n)]},
          result |-> Accessor(acc, i, n), evaluated |-> TRUE]

\* the instances that exist: two that compare equal, and another
RaisePersons == <<"Steve_Zelaznik", "Steve_Zelaznik", "Barack_Obama">>

RaiseInit ==
    /\ func_spec = ThreadFunc
    /\ phase = "defined"
    /\ fmt = NoFmt
    /\ wrapper_spec = NoSpec
    /\ code = NoCode
    /\ cache = {}
    /\ invoked = {}
    /\ ncalls = 0
    /\ last = NoCall
    /\ persons = RaisePersons
    /\ pcache = [a \in Accessors |-> {}]
    /\ evals = [a \in Accessors |-> [i \in 1..Len(RaisePersons) |-> 0]]
    /\ plast = NoAccess
    /\ ExtInit

\* one call of the wrapper; the original may raise
RaisingCall ==
    /\ phase = "memoized"
    /\ Len(trace) < MaxRaiseCalls
    /\ \E x \in RaiseArgs, exc \in Raises :
       \E b \in {Bind(wrapper_spec, <<x>>, <<>>)} :
       \E r \in {MemoizeBodyRaising(code, wrapper_spec, func_spec, cache, b, exc)} :
           /\ cache' = r.cache
           /\ trace' = Append(trace, [kind |-> "wrapper", acc |-> "none", inst |-> 0,
                                      key |-> r.key, outcome |-> r.outcome,
                                      hit |-> r.hit, called |-> r.called])
    /\ ncalls' = ncalls + 1
    /\ UNCHANGED <<func_spec, phase, fmt, wrapper_spec, code, invoked, last>>
    /\ UNCHANGED <<prop_vars, threads, computed, fwd, heap, wrappers, rec>>

\* instance.x or instance.y; the accessor function may raise
RaisingAccess ==
    /\ Len(trace) < MaxRaiseCalls
    /\ \E a \in Accessors, i \in 1..Len(persons), exc \in Raises :
       \E r \in {CacheGetItemRaising(persons, pcache[a], a, i, evals[a][i], exc)} :
           /\ pcache' = [pcache EXCEPT ![a] = r.cache]
           /\ evals' = IF r.evaluated THEN [evals EXCEPT ![a][i] = @ + 1] ELSE evals
           /\ plast' = [acc |-> a, inst |-> i, result |-> r.result,
                        evaluated |-> r.evaluated]
           /\ trace' = Append(trace, [kind |-> "accessor", acc |-> a, inst |-> i,
                                      key |-> NoKey, outcome |-> r.outcome,
                                      hit |-> ~r.evaluated, called |-> r.evaluated])
    /\ UNCHANGED persons
    /\ UNCHANGED <<memo_vars, threads, computed, fwd, heap, wrappers, rec>>

RaiseNext == Memoize \/ RaisingCall \/ RaisingAccess

RaiseSpec == RaiseInit /\ [][RaiseNext]_vars

----------------------------------------------------------------------------
(* A function that calls its own wrapper: fib = memoize(fib), with         *)
(*     def fib(x): return x if x < 2 else fib(x - 1) + fib(x - 2)          *)
(* The calls in progress form a stack; the top frame runs.                 *)

\* the frame of a call _memoize(n) that has evaluated its key
Frame(n) ==
    LET b == Bind(wrapper_spec, <<PyInt(n)>>, <<>>)
    IN  [b |-> b, key |-> KeyExpr(code.middle, wrapper_spec, b).key,
         pc |-> "lookup", rets |-> <<>>, val |-> 0]

Top == rec.stack[Len(rec.stack)]

SetTop(f) == [rec.stack EXCEPT ![Len(rec.stack)] = f]

\* the top frame returns v to its caller: to the frame below, which is in
\* the body of fib, or to the top-level caller
Return(v) ==
    IF Len(rec.stack) = 1
    THEN [rec EXCEPT !.stack = <<>>,
                     !.ret = [n |-> Top.b.named[1].n, val |-> v, done |-> TRUE]]
    ELSE [rec EXCEPT !.stack =
              [Take(rec.stack, Len(rec.stack) - 1) EXCEPT
                  ![Len(rec.stack) - 1].rets = Append(@, v)]]

FibInit ==
    /\ func_spec = ThreadFunc
    /\ phase = "defined"
    /\ fmt = NoFmt
    /\ wrapper_spec = NoSpec
    /\ code = NoCode
    /\ cache = {}
    /\ invoked = {}
    /\ ncalls = 0
    /\ last = NoCall
    /\ PropInit
    /\ ExtInit

FibFrame == UNCHANGED <<func_spec, phase, fmt, wrapper_spec, code, invoked, last,
                        prop_vars, trace, threads, computed, fwd, heap, wrappers>>

\* a top-level call fib(n)
FibCall ==
    /\ phase = "memoized"
    /\ rec.stack = <<>>
    /\ ncalls < MaxCalls
    /\ \E n \in 0..MaxFib : rec' = [rec EXCEPT !.stack = <<Frame(n)>>, !.ret = NoRec.ret]
    /\ ncalls' = ncalls + 1
    /\ UNCHANGED cache
    /\ FibFrame

\* try: return cache[key] / except KeyError: pass; then func is entered
FibLookup ==
    /\ rec.stack # <<>> /\ Top.pc = "lookup"
    /\ LET found == Lookup(cache, Top.key)
       IN  rec' = IF found # {}
                  THEN Return((CHOOSE e \in found : TRUE).val.n)
                  ELSE [rec EXCEPT !.stack = SetTop([Top EXCEPT !.pc = "body"]),
                                   !.execs = Append(@, Top.key)]
    /\ UNCHANGED <<cache, ncalls>>
    /\ FibFrame

\* val = func(<bottom_args>): the body of fib runs up to its next call of
\* the wrapper, or to its return
FibBody ==
    /\ rec.stack # <<>> /\ Top.pc = "body"
    /\ LET x == CallExpr(code.bottom, wrapper_spec, Top.b).pos[1].n
       IN  rec' = IF x < 2
                  THEN [rec EXCEPT !.stack = SetTop([Top EXCEPT !.pc = "store", !.val = x])]
                  ELSE IF Len(Top.rets) < 2
                  THEN [rec EXCEPT !.stack = Append(@, Frame(x - 1 - Len(Top.rets)))]
                  ELSE [rec EXCEPT !.stack =
                           SetTop([Top EXCEPT !.pc = "store",
                                              !.val = Top.rets[1] + Top.rets[2]])]
    /\ UNCHANGED <<cache, ncalls>>
    /\ FibFrame

\* cache[key] = val
FibStore ==
    /\ rec.stack # <<>> /\ Top.pc = "store"
    /\ cache' = SetItem(cache, Top.key, PyInt(Top.val))
    /\ rec' = [rec EXCEPT !.stack = SetTop([Top EXCEPT !.pc = "return"])]
    /\ UNCHANGED ncalls
    /\ FibFrame

\* return val
FibReturn ==
    /\ rec.stack # <<>> /\ Top.pc = "return"
    /\ rec' = Return(Top.val)
    /\ UNCHANGED <<cache, ncalls>>
    /\ FibFrame

FibNext == Memoize \/ FibCall \/ FibLookup \/ FibBody \/ FibStore \/ FibReturn

FibSpec == FibInit /\ [][FibNext]_vars

----------------------------------------------------------------------------
(* Properties of memoize, checked under Spec.                              *)

Returned == last.outcome = "return"

\* C1: the original is invoked exactly once for each distinct cache key:
\* the first call with a key invokes it, every later call with an equal key
\* returns the stored value without invoking it again.
InvokedOncePerKey ==
    /\ \A e1, e2 \in invoked :
           /\ e1.n = 1
           /\ KeyEq(e1.key, e2.key) => e1 = e2
    /\ Returned =>
           /\ last.called = ~last.hit
           /\ \E e \in invoked : KeyEq(e.key, last.key) /\ e.val = last.result

\* a second call with an equal key was served from the cache
SecondCallHit ==
    /\ ncalls = 2
    /\ Returned /\ last.hit /\ ~last.called
    /\ \E e \in invoked : KeyEq(e.key, last.key) /\ e.n = 1

\* C2: whenever the wrapper returns, it returns what the original returns
\* when called directly with the same arguments.
ReturnsWhatOriginalReturns ==
    Returned => last.direct.ok /\ last.result = last.direct.val

\* spec equality as getargspec(a) == getargspec(b) decides it
SpecEq(a, b) ==
    /\ a.args = b.args
    /\ a.varargs = b.varargs
    /\ a.keywords = b.keywords
    /\ Len(a.defaults) = Len(b.defaults)
    /\ \A i \in 1..Len(a.defaults) : PyEq(a.defaults[i], b.defaults[i])

\* C3: the wrapper that memoize returns has the parameter names, the default
\* values, and the variable-positional and variable-keyword names of the
\* original.
SignaturePreserved == phase = "memoized" => SpecEq(wrapper_spec, func_spec)

SameItems(kw1, kw2) ==
    {kw1[i] : i \in 1..Len(kw1)} = {kw2[i] : i \in 1..Len(kw2)}

\* C6: with a variable-keyword parameter, a call that passes the keyword
\* pairs of an earlier call in another order (all else equal) has an equal
\* key, hits the entry that call stored and does not invoke the original.
KeywordOrderIrrelevant ==
    (func_spec.keywords # NoName /\ Returned) =>
        \A e \in invoked :
            (e.pos = last.pos /\ SameItems(e.kw, last.kw) /\ e.kw # last.kw) =>
                /\ KeyEq(e.key, last.key)
                /\ last.hit /\ ~last.called
                /\ last.result = e.val

\* two variable-keyword arguments were passed in the reverse order of an
\* earlier call, and the call was a hit
ReorderedKeywordsHit ==
    /\ Returned /\ last.hit
    /\ Len(last.kw) = 2
    /\ last.kw[1][1] \in ExtraNames /\ last.kw[2][1] \in ExtraNames
    /\ \E e \in invoked : e.pos = last.pos /\ e.kw = <<last.kw[2], last.kw[1]>>

\* C7: a call with the same effective argument bindings as an earlier call
\* (what the original binds its parameters to) has an equal key, however the
\* arguments were supplied.
EquivalentCallsShareKey ==
    Returned =>
        \A e \in invoked :
            CallFunc(func_spec, e.pos, e.kw).val = last.direct.val =>
                KeyEq(e.key, last.key)

SuppliesUnhashable(call) ==
    \/ \E i \in 1..Len(call.pos) : ~Hashable(call.pos[i])
    \/ \E i \in 1..Len(call.kw) : ~Hashable(call.kw[i][2])

\* C8: a call that supplies an unhashable value fails with an error, does
\* not invoke the original and leaves the cache as it was.
UnhashableCallFails ==
    [][(ncalls' = ncalls + 1 /\ last'.bound /\ SuppliesUnhashable(last')) =>
           /\ last'.outcome = "TypeError"
           /\ ~last'.called
           /\ invoked' = invoked
           /\ cache' = cache]_vars

\* a call passed a list as a variable-keyword value to a wrapper whose cache
\* held an entry, and failed
UnhashableKeywordRejected ==
    /\ cache # {}
    /\ last.bound /\ last.outcome = "TypeError"
    /\ \E i \in 1..Len(last.kw) :
           last.kw[i][1] \in ExtraNames /\ ~Hashable(last.kw[i][2])

\* C9: a cache hit returns a value stored under a key made of the very same
\* argument values, never one stored by a call with other values that only
\* compare equal.
HitOnlyOnSameValues ==
    (Returned /\ last.hit) =>
        \A e \in cache : KeyEq(e.key, last.key) => e.key = last.key

CacheMatchesInvocations ==
    /\ \A e1, e2 \in cache : KeyEq(e1.key, e2.key) => e1 = e2
    /\ \A i \in invoked : \E e \in cache : e.key = i.key /\ e.val = i.val
    /\ \A e \in cache : \E i \in invoked : i.key = e.key /\ i.val = e.val

\* C10: the cache holds exactly one entry for each distinct key for which
\* the original returned a value, and no call removes an entry or changes
\* the value stored under a key.
CacheOnlyGrows ==
    /\ []CacheMatchesInvocations
    /\ [][\A e \in cache : e \in cache']_vars

\* a second miss added a second entry next to the first
CacheGrew ==
    /\ ncalls = 2
    /\ Returned /\ last.called
    /\ Cardinality(cache) = 2

\* the call e and the latest call bind the same named parameters and the
\* same keyword pairs, and other extra positional arguments
DiffersInVarargsOnly(e) ==
    LET be == Bind(wrapper_spec, e.pos, e.kw)
        bl == Bind(wrapper_spec, last.pos, last.kw)
    IN  /\ be.named = bl.named
        /\ SameItems(be.keywords, bl.keywords)
        /\ be.varargs # bl.varargs

\* C12: the key includes the extra positional arguments positionally: a
\* call that differs from an earlier one only in the values, the number or
\* the order of its extra positional arguments has another key and invokes
\* the original.
VarargsDistinguishCalls ==
    (Returned /\ func_spec.varargs # NoName) =>
        \A e \in invoked :
            DiffersInVarargsOnly(e) =>
                /\ ~KeyEq(e.key, last.key)
                /\ last.called /\ ~last.hit

\* C14: a function whose defaults the synthesised wrapper cannot reproduce
\* (the repr of a default does not evaluate back to an equal value) makes
\* memoize fail; memoize never returns a wrapper that carries another
\* default, to show only at a later call.
DecorationFailsOrReproduces ==
    /\ phase = "memoized" =>
           \A i \in 1..Len(func_spec.defaults) :
               /\ Eval(Repr(func_spec.defaults[i])).ok
               /\ PyEq(Eval(Repr(func_spec.defaults[i])).val, func_spec.defaults[i])
    /\ phase = "decoration_error" => ncalls = 0 /\ cache = {}

\* Supporting fact: a default whose repr does not evaluate makes memoize
\* fail, and no wrapper exists to be called.
UnevaluableDefaultFailsDecoration ==
    (phase # "defined" /\ \E i \in 1..Len(func_spec.defaults) :
                              ~Eval(Repr(func_spec.defaults[i])).ok) =>
        phase = "decoration_error" /\ ncalls = 0 /\ cache = {}

----------------------------------------------------------------------------
(* Supporting facts: what the violated properties above rest on.           *)

\* a == b for two tuples
TupleEq(a, b) == Len(a) = Len(b) /\ \A i \in 1..Len(a) : PyEq(a[i], b[i])

\* extra positional arguments that do not compare equal give another key
\* and invoke the original
VarargsDistinguishUnequalCalls ==
    (Returned /\ func_spec.varargs # NoName) =>
        \A e \in invoked :
            (/\ DiffersInVarargsOnly(e)
             /\ ~TupleEq(Bind(wrapper_spec, e.pos, e.kw).varargs,
                         Bind(wrapper_spec, last.pos, last.kw).varargs)) =>
                /\ ~KeyEq(e.key, last.key)
                /\ last.called /\ ~last.hit

\* every default of the original evaluates back from its repr to an equal
\* value, where it evaluates at all
DefaultsRoundTrip ==
    \A i \in 1..Len(func_spec.defaults) :
        Eval(Repr(func_spec.defaults[i])).ok =>
            PyEq(Eval(Repr(func_spec.defaults[i])).val, func_spec.defaults[i])

\* the signature is preserved for defaults whose repr round-trips
SignaturePreservedOnRoundTrip == DefaultsRoundTrip => SignaturePreserved

\* equivalent calls share a key for defaults whose repr round-trips
EquivalentCallsShareKeyOnRoundTrip == DefaultsRoundTrip => EquivalentCallsShareKey

\* the wrapper returns what the original returns where the defaults
\* round-trip and the hit is on a key of the very same values
ReturnsOriginalOnExactKeys ==
    (DefaultsRoundTrip /\ HitOnlyOnSameValues) => ReturnsWhatOriginalReturns

----------------------------------------------------------------------------
(* Properties of private_cache, checked under PropSpec.                    *)

Accessed == plast.acc # "none"

\* C4: the first access on an instance evaluates the accessor with that
\* instance and returns its result, later accesses return that stored value
\* without evaluating again, and no access removes or replaces an entry.
FirstAccessEvaluates ==
    /\ Accessed =>
           /\ evals[plast.acc][plast.inst] = 1
           /\ plast.result = Accessor(plast.acc, plast.inst, 0)
    /\ \A a \in Accessors : \A e1, e2 \in pcache[a] : e1.key = e2.key => e1 = e2

\* C5: no instance observes the value cached for another instance, also
\* when the two compare equal and hash equal.
InstancesIsolated ==
    Accessed =>
        /\ plast.result.id = plast.inst
        /\ \E e \in pcache[plast.acc] : e.key = plast.inst

\* C17: every use of private_cache has a cache of its own: an access
\* through one accessor never evaluates the function of another accessor,
\* never stores into its cache and never returns its value.
AccessorsIndependent ==
    /\ [](Accessed => plast.result.acc = plast.acc)
    /\ [](\A a \in Accessors : \A e \in pcache[a] : e.val.acc = a)
    /\ [][persons' = persons =>
              \A a \in Accessors \ {plast'.acc} :
                  pcache'[a] = pcache[a] /\ evals'[a] = evals[a]]_vars

\* both accessors were read on one instance: each evaluated its own
\* function once and holds its own value for the instance
BothAccessorsCached ==
    /\ Accessed
    /\ \A a \in Accessors :
           /\ evals[a][plast.inst] = 1
           /\ \E e \in pcache[a] : e.key = plast.inst /\ e.val.acc = a

\* Supporting fact: the first access evaluates the accessor where no two
\* instances compare equal.
FirstAccessEvaluatesOnDistinct ==
    (\A i, j \in 1..Len(persons) : i # j => ~PersonEq(persons, i, j)) =>
        FirstAccessEvaluates

----------------------------------------------------------------------------
(* Properties of the docstring's function, checked under ScenarioSpec.     *)

\* the calls made so far are f(1, 2), f(1, 2), f(1, 2, z=3)
ScenarioPlayed ==
    /\ Len(trace) = 3
    /\ trace[1].pos = <<PyInt(1), PyInt(2)>> /\ trace[1].kw = <<>>
    /\ trace[2].pos = <<PyInt(1), PyInt(2)>> /\ trace[2].kw = <<>>
    /\ trace[3].pos = <<PyInt(1), PyInt(2)>> /\ trace[3].kw = <<<<"z", PyInt(3)>>>>

\* the number of calls so far that executed the body of the original
Executions == Cardinality({i \in 1..Len(trace) : trace[i].called})

\* C11: for f(x, y, z=-1, *varargs, **keywords) the calls f(1, 2), f(1, 2),
\* f(1, 2, z=3) execute the body exactly twice: the second call hits the
\* first call's key, the third has another key and computes again.
ScenarioExecutesTwice ==
    ScenarioPlayed =>
        /\ Executions = 2
        /\ trace[1].called /\ ~trace[1].hit
        /\ trace[2].hit /\ ~trace[2].called /\ KeyEq(trace[2].key, trace[1].key)
        /\ trace[3].called /\ ~trace[3].hit /\ ~KeyEq(trace[3].key, trace[1].key)

\* the three calls of the scenario were made, and all returned
ScenarioCompleted ==
    /\ ScenarioPlayed
    /\ \A i \in 1..3 : trace[i].outcome = "return"
    /\ Cardinality(cache) = 2

----------------------------------------------------------------------------
(* Properties of concurrent calls, checked under ThreadSpec.               *)

\* the values the original computed for a key equal to k
ComputedFor(k) == {c.val : c \in {d \in computed : KeyEq(d.key, k)}}

AllFinished == \A t \in 1..MaxThreads : threads[t].pc \in {"idle", "done"}

\* C13: threads that call the wrapper concurrently with the same key may run
\* the original more than once, and nothing else goes wrong: every call
\* returns a value the original computed for its key, and once all calls
\* have finished the cache holds exactly one entry for the key, with such a
\* value.
ConcurrentCallsOnlyDuplicateWork ==
    /\ \A t \in 1..MaxThreads :
           threads[t].pc = "done" => threads[t].ret \in ComputedFor(threads[t].key)
    /\ AllFinished =>
           \A t \in 1..MaxThreads :
               threads[t].pc = "done" =>
                   /\ Cardinality(Lookup(cache, threads[t].key)) = 1
                   /\ \A e \in Lookup(cache, threads[t].key) :
                          e.val \in ComputedFor(threads[t].key)

\* two threads called with the same argument, both ran the original, and
\* both have returned
DuplicateWorkDone ==
    /\ \A t \in 1..MaxThreads : threads[t].pc = "done"
    /\ threads[1].b = threads[2].b
    /\ threads[1].ret # threads[2].ret
    /\ Cardinality(ComputedFor(threads[1].key)) = 2

----------------------------------------------------------------------------
(* Properties of name resolution, checked under ShadowSpec.                *)

\* the values the call bound to the wrapper's parameters: the named
\* parameters, then the extra positional values; and the keyword pairs
BoundArgs(b) ==
    [pos |-> [i \in 1..(Len(b.named) + Len(b.varargs)) |->
                 ValComp(IF i <= Len(b.named) THEN b.named[i]
                         ELSE b.varargs[i - Len(b.named)])],
     kw |-> {b.keywords[i] : i \in 1..Len(b.keywords)}]

\* the latest call was a miss, or failed where a miss would have called
\* the original
Missed == fwd.outcome # "none" /\ fwd.bound.ok /\ ~fwd.hit

\* C15: on a miss the wrapper invokes the original with exactly the values
\* bound to its parameters, whatever the parameters are named, also when
\* they are named func, cache, key, val or wraps.
ForwardsBoundValues ==
    Missed =>
        /\ fwd.called
        /\ fwd.pos = BoundArgs(fwd.bound).pos
        /\ fwd.kw = BoundArgs(fwd.bound).kw

\* Supporting fact: the bound values are forwarded where no parameter is
\* named func, cache or key; the names val and wraps do no harm.
ForwardsBoundValuesUnlessHidden ==
    (Params(func_spec) \cap {"func", "cache", "key"} = {}) => ForwardsBoundValues

\* Supporting fact: a parameter named key is forwarded where it is the only
\* expression of the key, so that key = (key) rebinds it to itself.
ForwardsLoneKey ==
    (Params(func_spec) = {"key"}
     /\ func_spec.keywords = NoName) => ForwardsBoundValues

----------------------------------------------------------------------------
(* Properties of several wrappers, checked under TwoSpec.                  *)

\* C16: every call of memoize creates a cache owned by the wrapper it
\* returns: two wrappers, of two functions or of one, never share entries;
\* a call to one never hits in, or adds an entry to, the other.
WrappersOwnTheirCaches ==
    /\ \A w, v \in 1..Len(wrappers) : w # v => wrappers[w].cache # wrappers[v].cache
    /\ \A w \in 1..Len(wrappers) : heap[wrappers[w].cache] = wrappers[w].stored
    /\ \A i \in 1..Len(trace) :
           trace[i].hit =>
               \E j \in 1..(i - 1) :
                   /\ trace[j].w = trace[i].w
                   /\ trace[j].called
                   /\ KeyEq(trace[j].key, trace[i].key)

\* the same function was memoized twice, the same call was made to either
\* wrapper, and both calls invoked the original
BothWrappersMissed ==
    /\ Len(wrappers) = 2 /\ wrappers[1].func = wrappers[2].func
    /\ Len(trace) = 2 /\ trace[1].w # trace[2].w
    /\ KeyEq(trace[1].key, trace[2].key)
    /\ trace[1].called /\ trace[2].called
    /\ heap[wrappers[1].cache] # {} /\ heap[wrappers[2].cache] # {}

----------------------------------------------------------------------------
(* Properties of an original that raises, checked under RaiseSpec.         *)

\* two recorded calls look up the same cache with equal keys
SameKey(e1, e2) ==
    /\ e1.kind = e2.kind
    /\ IF e1.kind = "wrapper" THEN KeyEq(e1.key, e2.key)
       ELSE e1.acc = e2.acc /\ PersonEq(persons, e1.inst, e2.inst)

OriginalRaised(e) == e.called /\ e.outcome # "return"

\* C18: when the original raises during a miss, in the wrapper of memoize
\* and in the accessor of private_cache alike, the error reaches the
\* caller, nothing is stored and the cache is unchanged; a later call with
\* the same key invokes the original again.
RaisedCallsStoreNothing ==
    /\ [][(Len(trace') = Len(trace) + 1 /\ trace'[Len(trace')].called) =>
              LET e == trace'[Len(trace')]
              IN  e.outcome # "return" =>
                      /\ e.outcome \in Raises \ {"none"}
                      /\ cache' = cache /\ pcache' = pcache]_vars
    /\ [](\A j \in 1..Len(trace) :
              /\ trace[j].called = ~trace[j].hit
              /\ trace[j].hit =>
                     \E i \in 1..(j - 1) :
                         /\ SameKey(trace[i], trace[j])
                         /\ trace[i].called /\ trace[i].outcome = "return")

\* the original raised in a call of the wrapper and in an access, and the
\* next call with the same key of each invoked it again, and it returned
RaisedThenRecomputed ==
    \A kind \in {"wrapper", "accessor"} :
        \E i, j \in 1..Len(trace) :
            /\ i < j
            /\ trace[i].kind = kind /\ SameKey(trace[i], trace[j])
            /\ OriginalRaised(trace[i])
            /\ trace[j].called /\ trace[j].outcome = "return"

----------------------------------------------------------------------------
(* Properties of the recursive function, checked under FibSpec.            *)

RECURSIVE Fib(_)
\* the n-th Fibonacci number
Fib(n) == IF n < 2 THEN n ELSE Fib(n - 1) + Fib(n - 2)

\* C19: a memoized function that calls its own wrapper with other keys
\* executes its body once per distinct key over the whole computation: the
\* entries the nested calls stored serve the calls still in progress, and
\* the store of an outer call neither removes nor overwrites them.
BodyRunsOncePerKey ==
    /\ [](\A i, j \in 1..Len(rec.execs) :
              i # j => ~KeyEq(rec.execs[i], rec.execs[j]))
    /\ [](\A e \in cache :
              /\ e.val = PyInt(Fib(e.key.comps[1].val.n))
              /\ \E i \in 1..Len(rec.execs) : rec.execs[i] = e.key)
    /\ [](rec.ret.done => rec.ret.val = Fib(rec.ret.n))
    /\ [][\A e \in cache : e \in cache']_vars

\* fib(MaxFib) has returned: the body ran once for each of 0..MaxFib and
\* every one of these keys has its entry
FibComputed ==
    /\ rec.stack = <<>>
    /\ rec.ret.done /\ rec.ret.n = MaxFib
    /\ Len(rec.execs) = MaxFib + 1
    /\ Cardinality(cache) = MaxFib + 1

=============================================================================
